---- MODULE Spec2Model ----
(***************************************************************************)
(* Lucky3 single-game simulation (tools/simulate_seeds.py) and the seed    *)
(* search built on it (tools/build_seed_pool.py).                          *)
(*                                                                         *)
(* The game state of simulate_game is modelled variable for variable; one  *)
(* action stands for one way a pass through the `while True` loop can go.  *)
(* Columns are numbered 0..3 and clear indices are 0-based as in the       *)
(* source; TLA+ sequences are 1-based, so card i of a column is col[i+1].  *)
(* The deck is drawn from its end (list.pop()).                            *)
(***************************************************************************)
EXTENDS Integers, Sequences, FiniteSets, TLC

VARIABLES
    deck_mode,       \* argument deck_mode: "forced3" | "full-random"
    policy,          \* argument policy: "deterministic" | "random"
    max_steps,       \* argument max_steps
    detect_cycle,    \* argument detect_cycle
    deck,            \* List[int], drawn from the end
    cols,            \* the four columns, [0..3 -> Seq(card)]
    active,          \* [0..3 -> BOOLEAN]
    next_idx,        \* deal cursor
    cleared_groups,  \* chronological list of cleared triples
    steps, deals, clears, recycles,
    seen,            \* visited-state set of the cycle detection
    pc,              \* "opening" | "loop" | "done" (| "call" | "return")
    branch,          \* which branch the last loop iteration took
    move,            \* the (sid, idxs) taken by the last clear
    target,          \* the column that received the last dealt card
    outcome,         \* the returned Outcome record
    col,             \* argument of a stand-alone legal_clear_moves_for_col call
    out,             \* its result
    total,           \* build_pool: argument total
    lucky3_ratio,    \* argument lucky3_ratio, as <<numerator, denominator>>
    seed_limit,      \* argument seed_limit
    seed_kind,       \* simulate_game(Random(seed), ...).kind for every seed
    target_lucky3, target_zero,
    lucky3_seeds, zero_seeds,
    pool_seen,       \* build_pool's local `seen`: the seeds drawn so far
    attempts,
    pool_out         \* what build_pool returned, or the error it raised

vars == <<deck_mode, policy, max_steps, detect_cycle, deck, cols, active,
          next_idx, cleared_groups, steps, deals, clears, recycles, seen,
          pc, branch, move, target, outcome, col, out,
          total, lucky3_ratio, seed_limit, seed_kind, target_lucky3,
          target_zero, lucky3_seeds, zero_seeds, pool_seen, attempts, pool_out>>

poolVars == <<total, lucky3_ratio, seed_limit, seed_kind, target_lucky3,
              target_zero, lucky3_seeds, zero_seeds, pool_seen, attempts, pool_out>>

gameVars == <<deck_mode, policy, max_steps, detect_cycle, deck, cols, active,
              next_idx, cleared_groups, steps, deals, clears, recycles, seen,
              branch, move, target, outcome>>

----------------------------------------------------------------------------
(* Bounds of the model *)

\* number of shuffle results per deck mode the games are started from
NumShuffles == 3
\* largest step cap passed as max_steps
MaxSteps == 100
\* the small step caps 1..ShortCaps are passed as well
ShortCaps == 30
\* the small step caps 1..FairShortCaps of the games run to their end
FairShortCaps == 6
\* longest column handed to a stand-alone evaluator call
MaxColLen == 4
\* build_pool: largest pool size asked for
MaxTotal == 3
\* the ratios passed are 0/RatioDen .. RatioDen/RatioDen
RatioDen == 2
\* largest seed_limit passed
MaxSeedLimit == 4
\* the seeds the system random source draws from are 0..NumSeeds-1
NumSeeds == 3

(* Program constants *)

TARGET_SUMS == {9, 19, 29}
NumCols == 4
MaxValue == 10
Copies == 4
CardsPerCol == 3
DeckSize == MaxValue * Copies

ColIds == 0..(NumCols - 1)
Cards == 1..MaxValue
None == -1

----------------------------------------------------------------------------
(* Sequence helpers standing for the Python list operations used *)

RECURSIVE SeqSum(_)
SeqSum(s) == IF s = <<>> THEN 0 ELSE Head(s) + SeqSum(Tail(s))

\* list.pop(i), the remaining list (i is 0-based)
PopAt(s, i) == [k \in 1..(Len(s) - 1) |-> IF k <= i THEN s[k] ELSE s[k + 1]]

\* list.pop(), the remaining list
PopLast(s) == SubSeq(s, 1, Len(s) - 1)

Last(s) == s[Len(s)]

Reverse(s) == [k \in 1..Len(s) |-> s[Len(s) + 1 - k]]

RECURSIVE Flatten(_)
Flatten(ss) == IF ss = <<>> THEN <<>> ELSE Head(ss) \o Flatten(Tail(ss))

\* list.remove(v): drops the first occurrence of v
RemoveFirst(s, v) ==
    LET i == CHOOSE k \in 1..Len(s) : s[k] = v /\ \A j \in 1..(k - 1) : s[j] # v
    IN  PopAt(s, i - 1)

\* tuple(sorted(c)) of a triple
Sort3(c) ==
    IF c[1] <= c[2]
    THEN IF c[2] <= c[3] THEN c
         ELSE IF c[1] <= c[3] THEN <<c[1], c[3], c[2]>> ELSE <<c[3], c[1], c[2]>>
    ELSE IF c[1] <= c[3] THEN <<c[2], c[1], c[3]>>
         ELSE IF c[2] <= c[3] THEN <<c[2], c[3], c[1]>> ELSE <<c[3], c[2], c[1]>>

\* number of cards of value v in a sequence
Count(s, v) == Cardinality({k \in 1..Len(s) : s[k] = v})

----------------------------------------------------------------------------
(* build_deck *)

\* Results of rng.shuffle on a 39-element list (forced3 mode), as the order
\* in which the elements of the input list appear in the shuffled list.
\* These are the orders random.Random(seed).shuffle produces for the seeds
\* named.
ShuffleOrders39 == <<
    <<16, 28, 15, 13, 18, 9, 29, 22, 11, 3, 19, 20, 39, 26, 7, 4, 34, 23, 2, 1, 21, 24, 17, 33, 12, 27, 31, 30, 10, 38, 36, 35, 5, 8, 32, 6, 14, 25, 37>>,  \* seed 1157
    <<19, 23, 3, 7, 39, 2, 25, 5, 38, 33, 9, 13, 10, 18, 22, 24, 26, 30, 21, 31, 16, 36, 14, 6, 29, 34, 17, 12, 4, 27, 20, 1, 35, 28, 11, 37, 32, 15, 8>>,  \* seed 2110
    <<32, 26, 3, 39, 21, 4, 19, 29, 25, 11, 30, 34, 27, 20, 24, 9, 8, 6, 38, 5, 7, 31, 1, 33, 37, 16, 28, 23, 22, 2, 15, 10, 36, 17, 13, 18, 14, 12, 35>>,  \* seed 723
    <<19, 7, 31, 8, 24, 30, 34, 27, 9, 10, 33, 26, 29, 32, 20, 15, 5, 14, 3, 4, 18, 28, 37, 23, 1, 36, 17, 21, 16, 6, 35, 38, 12, 39, 25, 2, 22, 11, 13>>   \* seed 2379
    >>

\* Results of rng.shuffle on a 40-element list (full-random mode).
ShuffleOrders40 == <<
    <<17, 12, 18, 39, 7, 29, 21, 8, 19, 22, 37, 1, 3, 10, 31, 20, 30, 15, 33, 34, 4, 11, 13, 36, 28, 38, 32, 40, 25, 2, 14, 16, 23, 5, 35, 26, 6, 24, 27, 9>>,  \* seed 1022
    <<37, 30, 2, 24, 17, 13, 27, 9, 33, 11, 40, 4, 36, 3, 19, 14, 18, 39, 23, 28, 38, 1, 35, 15, 29, 31, 20, 22, 12, 21, 32, 6, 10, 26, 34, 7, 5, 16, 25, 8>>,  \* seed 732
    <<39, 20, 38, 16, 10, 14, 32, 2, 11, 25, 28, 19, 30, 17, 37, 26, 4, 33, 9, 24, 22, 13, 6, 7, 5, 34, 40, 31, 23, 1, 29, 15, 18, 12, 8, 27, 3, 21, 36, 35>>,  \* seed 268
    <<8, 37, 35, 17, 2, 26, 27, 36, 29, 13, 3, 14, 19, 7, 33, 16, 34, 32, 15, 23, 40, 20, 1, 4, 31, 22, 21, 11, 24, 10, 28, 25, 38, 5, 39, 18, 12, 30, 6, 9>>   \* seed 543
    >>

\* the random sources the games are run with: rng k shuffles in the k-th order
Rngs == 1..(IF NumShuffles <= Len(ShuffleOrders40) THEN NumShuffles ELSE Len(ShuffleOrders40))

\* rng.shuffle(values) for random source rng
shuffle(rng, values) ==
    LET order == IF Len(values) = DeckSize THEN ShuffleOrders40[rng] ELSE ShuffleOrders39[rng]
    IN  [i \in 1..Len(values) |-> values[order[i]]]

\* for v in range(1, 11): values.extend([v] * 4)
SortedValues == [i \in 1..(MaxValue * Copies) |-> ((i - 1) \div Copies) + 1]

\* the forced 3 put at the draw end of the list
build_deck_forced_top(rng, mode) ==
    IF mode = "full-random"
    THEN shuffle(rng, SortedValues)
    ELSE shuffle(rng, RemoveFirst(SortedValues, 3)) \o <<3>>

build_deck(rng, mode) ==
    IF mode = "full-random"
    THEN shuffle(rng, SortedValues)
    ELSE <<3>> \o shuffle(rng, RemoveFirst(SortedValues, 3))

----------------------------------------------------------------------------
(* opening_deal *)

\* one pass of the inner loop body for round r, column c; st = <<deck, cols>>.
\* `if not deck: return` ends the whole deal.
RECURSIVE OpeningFrom(_, _, _, _)
OpeningFrom(d, cs, r, c) ==
    IF r >= CardsPerCol THEN <<d, cs>>
    ELSE IF c >= NumCols THEN OpeningFrom(d, cs, r + 1, 0)
    ELSE IF d = <<>> THEN <<d, cs>>
    ELSE OpeningFrom(PopLast(d), [cs EXCEPT ![c] = Append(@, Last(d))], r, c + 1)

opening_deal(d, cs) == OpeningFrom(d, cs, 0, 0)

----------------------------------------------------------------------------
(* legal_clear_moves_for_col *)

\* the order the module docstring announces: tail3 -> head1tail2 -> head2tail1
candidates_tail3_first(L) == << <<L - 3, L - 2, L - 1>>,
                                <<0, L - 2, L - 1>>,
                                <<0, 1, L - 1>> >>

candidates(L) == << <<0, L - 2, L - 1>>,      \* head1tail2
                    <<0, 1, L - 1>>,          \* head2tail1
                    <<L - 3, L - 2, L - 1>> >> \* tail3

\* the `for c in candidates` loop, from candidate k on
RECURSIVE ScanCandidates(_, _, _, _, _)
ScanCandidates(c_col, cands, k, c_seen, c_out) ==
    IF k > Len(cands) THEN c_out
    ELSE LET c == Sort3(cands[k])
         IN  IF c \in c_seen
             THEN ScanCandidates(c_col, cands, k + 1, c_seen, c_out)
             ELSE LET s == c_col[c[1] + 1] + c_col[c[2] + 1] + c_col[c[3] + 1]
                  IN  ScanCandidates(c_col, cands, k + 1, c_seen \cup {c},
                                     IF s \in TARGET_SUMS THEN Append(c_out, c) ELSE c_out)

\* the candidate loop without the `seen` set
RECURSIVE ScanNoDedup(_, _, _, _)
ScanNoDedup(c_col, cands, k, c_out) ==
    IF k > Len(cands) THEN c_out
    ELSE LET c == Sort3(cands[k])
             s == c_col[c[1] + 1] + c_col[c[2] + 1] + c_col[c[3] + 1]
         IN  ScanNoDedup(c_col, cands, k + 1,
                         IF s \in TARGET_SUMS THEN Append(c_out, c) ELSE c_out)

legal_clear_moves_for_col_nodedup(c_col) ==
    IF Len(c_col) < 3 THEN <<>>
    ELSE ScanNoDedup(c_col, candidates(Len(c_col)), 1, <<>>)

legal_clear_moves_for_col(c_col) ==
    IF Len(c_col) < 3 THEN <<>>
    ELSE ScanCandidates(c_col, candidates(Len(c_col)), 1, {}, <<>>)

has_any_legal_clear(cs, act) ==
    \E i \in ColIds : act[i] /\ legal_clear_moves_for_col(cs[i]) # <<>>

----------------------------------------------------------------------------
(* recycle *)

\* the groups put back in clear order
recycle_forward(groups) == Flatten(groups)

\* the earliest group left out
recycle_drop(groups) == Flatten(Reverse(Tail(groups)))

\* deck.clear(); for g in reversed(cleared_groups): deck.extend(g)
recycle(groups) == Flatten(Reverse(groups))

----------------------------------------------------------------------------
(* simulate_game: what one pass through the loop reads *)

Outcome(kind, st, d, c, r, board, rdeck, rgroups) ==
    [kind |-> kind, steps |-> st, deals |-> d, clears |-> c, recycles |-> r,
     remaining_board |-> board, remaining_deck |-> rdeck,
     remaining_recycle_groups |-> rgroups]

NoOutcome == Outcome("none", 0, 0, 0, 0, 0, 0, 0)

\* the tuple without the deal cursor
state_no_cursor == <<deck, cols, active, 0, cleared_groups>>

\* the tuple added to `seen`
state == <<deck, cols, active, next_idx, cleared_groups>>

\* sum(len(c) for c in cols)
BoardCount(cs) == SeqSum([i \in 1..NumCols |-> Len(cs[i - 1])])

total_cards == BoardCount(cols)

\* next(v for col in cols for v in col if col)
lone == Head(Flatten([i \in 1..NumCols |-> cols[i - 1]]))

\* the list `moves`: for sid in range(4), skipping inactive columns, every
\* legal clear of the column, as (sid, idxs)
RECURSIVE MovesFrom(_, _, _)
MovesFrom(cs, act, sid) ==
    IF sid >= NumCols THEN <<>>
    ELSE (IF act[sid]
          THEN LET ms == legal_clear_moves_for_col(cs[sid])
               IN  [k \in 1..Len(ms) |-> <<sid, ms[k]>>]
          ELSE <<>>) \o MovesFrom(cs, act, sid + 1)

moves == MovesFrom(cols, active, 0)

\* rng.choice(moves) under "random", moves[0] otherwise
Choices(ms, pol) ==
    IF pol = "random" THEN {ms[k] : k \in 1..Len(ms)} ELSE {ms[1]}

\* group = [col[i0], col[i1], col[i2]]
Group(c_col, idxs) == <<c_col[idxs[1] + 1], c_col[idxs[2] + 1], c_col[idxs[3] + 1]>>

\* the last three cards removed, whatever the indices
RemoveIdxs_tail3(c_col, idxs) == SubSeq(c_col, 1, Len(c_col) - 3)

\* for i in sorted(idxs, reverse=True): col.pop(i)
RemoveIdxs(c_col, idxs) ==
    LET s == Sort3(idxs)
    IN  PopAt(PopAt(PopAt(c_col, s[3]), s[2]), s[1])

\* the cursor's column, active or not
DealTarget_ignore_active(cursor, act) == cursor

\* the `for off in range(4)` scan for the column to deal to
DealTarget(cursor, act) ==
    IF \E off \in 0..(NumCols - 1) : act[(cursor + off) % NumCols]
    THEN LET off == CHOOSE o \in 0..(NumCols - 1) :
                        /\ act[(cursor + o) % NumCols]
                        /\ \A q \in 0..(o - 1) : ~act[(cursor + q) % NumCols]
         IN  (cursor + off) % NumCols
    ELSE None

\* next_idx = (target + 1) % 4
NextCursor_from_cursor(cursor, t) == (cursor + 1) % NumCols

NextCursor(cursor, t) == (t + 1) % NumCols

\* recycle tested before the clear
Branch_recycle_first ==
    IF steps + 1 > max_steps THEN "timeout"
    ELSE IF detect_cycle /\ state \in seen THEN "cycle"
    ELSE IF total_cards = 0 THEN "zero-clear"
    ELSE IF total_cards = 1 /\ lone = 3 THEN "lucky3"
    ELSE IF deck = <<>> /\ cleared_groups # <<>> THEN "recycle"
    ELSE IF moves # <<>> THEN "clear"
    ELSE IF deck = <<>> THEN "deadlock"
    ELSE "deal"

\* any lone card wins
Branch_any_lone ==
    IF steps + 1 > max_steps THEN "timeout"
    ELSE IF detect_cycle /\ state \in seen THEN "cycle"
    ELSE IF total_cards = 0 THEN "zero-clear"
    ELSE IF total_cards = 1 THEN "lucky3"
    ELSE IF moves # <<>> THEN "clear"
    ELSE IF deck = <<>> /\ cleared_groups # <<>> THEN "recycle"
    ELSE IF deck = <<>> THEN "deadlock"
    ELSE "deal"

\* victory tested before the step cap
Branch_win_first ==
    IF total_cards = 0 THEN "zero-clear"
    ELSE IF total_cards = 1 /\ lone = 3 THEN "lucky3"
    ELSE IF steps + 1 > max_steps THEN "timeout"
    ELSE IF detect_cycle /\ state \in seen THEN "cycle"
    ELSE IF moves # <<>> THEN "clear"
    ELSE IF deck = <<>> /\ cleared_groups # <<>> THEN "recycle"
    ELSE IF deck = <<>> THEN "deadlock"
    ELSE "deal"

\* empty deck tested before the recycle
Branch_deadlock_first ==
    IF steps + 1 > max_steps THEN "timeout"
    ELSE IF detect_cycle /\ state \in seen THEN "cycle"
    ELSE IF total_cards = 0 THEN "zero-clear"
    ELSE IF total_cards = 1 /\ lone = 3 THEN "lucky3"
    ELSE IF moves # <<>> THEN "clear"
    ELSE IF deck = <<>> THEN "deadlock"
    ELSE IF deck = <<>> /\ cleared_groups # <<>> THEN "recycle"
    ELSE "deal"

\* the cap test taken as steps >= max_steps
Branch_cap_off_by_one ==
    IF steps + 1 >= max_steps THEN "timeout"
    ELSE IF detect_cycle /\ state \in seen THEN "cycle"
    ELSE IF total_cards = 0 THEN "zero-clear"
    ELSE IF total_cards = 1 /\ lone = 3 THEN "lucky3"
    ELSE IF moves # <<>> THEN "clear"
    ELSE IF deck = <<>> /\ cleared_groups # <<>> THEN "recycle"
    ELSE IF deck = <<>> THEN "deadlock"
    ELSE "deal"

\* The branch one pass through the loop body takes, in the order the code
\* tests for it
Branch ==
    IF steps + 1 > max_steps THEN "timeout"
    ELSE IF detect_cycle /\ state \in seen THEN "cycle"
    ELSE IF total_cards = 0 THEN "zero-clear"
    ELSE IF total_cards = 1 /\ lone = 3 THEN "lucky3"
    ELSE IF moves # <<>> THEN "clear"
    ELSE IF deck = <<>> /\ cleared_groups # <<>> THEN "recycle"
    ELSE IF deck = <<>> THEN "deadlock"
    ELSE "deal"

\* seen.add(state), reached when neither timeout nor cycle returned
SeenAdd == IF detect_cycle THEN seen \cup {state} ELSE seen

\* the Outcome built but the loop not left
Return_no_stop(kind, board, rdeck, rgroups) ==
    /\ outcome' = Outcome(kind, steps + 1, deals, clears, recycles, board, rdeck, rgroups)
    /\ pc' = pc
    /\ branch' = kind

\* the Outcome reporting the step count before the increment
Return_stale_steps(kind, board, rdeck, rgroups) ==
    /\ outcome' = Outcome(kind, steps, deals, clears, recycles, board, rdeck, rgroups)
    /\ pc' = "done"
    /\ branch' = kind

Return(kind, board, rdeck, rgroups) ==
    /\ outcome' = Outcome(kind, steps + 1, deals, clears, recycles, board, rdeck, rgroups)
    /\ pc' = "done"
    /\ branch' = kind

args == <<deck_mode, policy, max_steps, detect_cycle>>

\* the locals of the other entry points, which a game leaves alone
evalVars == <<col, out, poolVars>>

\* build_pool not running
PoolIdle ==
    /\ total = 0 /\ lucky3_ratio = <<0, 1>> /\ seed_limit = 0
    /\ seed_kind = <<>>
    /\ target_lucky3 = 0 /\ target_zero = 0
    /\ lucky3_seeds = <<>> /\ zero_seeds = <<>>
    /\ pool_seen = {} /\ attempts = 0
    /\ pool_out = <<>>

\* the values passed as max_steps: every small cap, and the caps near MaxSteps
StepCaps == (1..ShortCaps) \cup ((MaxSteps - 3)..MaxSteps)

----------------------------------------------------------------------------
(* simulate_game *)

\* state after build_deck and the initialisation of the locals
Init ==
    /\ deck_mode \in {"forced3", "full-random"}
    /\ policy \in {"deterministic", "random"}
    /\ max_steps \in StepCaps
    /\ detect_cycle \in BOOLEAN
    /\ \E rng \in Rngs : deck = build_deck(rng, deck_mode)
    /\ cols = [i \in ColIds |-> <<>>]
    /\ active = [i \in ColIds |-> TRUE]
    /\ next_idx = 0
    /\ cleared_groups = <<>>
    /\ steps = 0 /\ deals = 0 /\ clears = 0 /\ recycles = 0
    /\ seen = {}
    /\ pc = "opening"
    /\ branch = "none"
    /\ move = <<>>
    /\ target = None
    /\ outcome = NoOutcome
    /\ col = <<>>
    /\ out = <<>>
    /\ PoolIdle

OpeningDeal ==
    /\ pc = "opening"
    /\ LET r == opening_deal(deck, cols)
       IN  deck' = r[1] /\ cols' = r[2]
    /\ pc' = "loop"
    /\ branch' = "opening"
    /\ UNCHANGED <<args, active, next_idx, cleared_groups, steps, deals, clears,
                   recycles, seen, move, target, outcome, evalVars>>

Timeout ==
    /\ pc = "loop"
    /\ Branch = "timeout"
    /\ steps' = steps + 1
    /\ Return("timeout", total_cards, Len(deck), Len(cleared_groups))
    /\ UNCHANGED <<args, deck, cols, active, next_idx, cleared_groups, deals, clears,
                   recycles, seen, move, target, evalVars>>

Cycle ==
    /\ pc = "loop"
    /\ Branch = "cycle"
    /\ steps' = steps + 1
    /\ Return("cycle", total_cards, Len(deck), Len(cleared_groups))
    /\ UNCHANGED <<args, deck, cols, active, next_idx, cleared_groups, deals, clears,
                   recycles, seen, move, target, evalVars>>

ZeroClear ==
    /\ pc = "loop"
    /\ Branch = "zero-clear"
    /\ steps' = steps + 1
    /\ seen' = SeenAdd
    /\ Return("zero-clear", 0, Len(deck), Len(cleared_groups))
    /\ UNCHANGED <<args, deck, cols, active, next_idx, cleared_groups, deals, clears,
                   recycles, move, target, evalVars>>

Lucky3 ==
    /\ pc = "loop"
    /\ Branch = "lucky3"
    /\ steps' = steps + 1
    /\ seen' = SeenAdd
    /\ Return("lucky3", 1, Len(deck), Len(cleared_groups))
    /\ UNCHANGED <<args, deck, cols, active, next_idx, cleared_groups, deals, clears,
                   recycles, move, target, evalVars>>

\* the clear without the `if len(col) == 0: active[sid] = False`
Clear_keep_active ==
    /\ pc = "loop"
    /\ Branch = "clear"
    /\ steps' = steps + 1
    /\ seen' = SeenAdd
    /\ \E m \in Choices(moves, policy) :
          /\ cleared_groups' = Append(cleared_groups, Group(cols[m[1]], m[2]))
          /\ cols' = [cols EXCEPT ![m[1]] = RemoveIdxs(cols[m[1]], m[2])]
          /\ move' = m
    /\ clears' = clears + 1
    /\ branch' = "clear"
    /\ UNCHANGED <<args, deck, active, next_idx, deals, recycles, pc, target, outcome,
                   evalVars>>


Clear ==
    /\ pc = "loop"
    /\ Branch = "clear"
    /\ steps' = steps + 1
    /\ seen' = SeenAdd
    /\ \E m \in Choices(moves, policy) :
          LET sid == m[1]
              idxs == m[2]
              rest == RemoveIdxs(cols[sid], idxs)
          IN  /\ cleared_groups' = Append(cleared_groups, Group(cols[sid], idxs))
              /\ cols' = [cols EXCEPT ![sid] = rest]
              /\ active' = IF Len(rest) = 0 THEN [active EXCEPT ![sid] = FALSE] ELSE active
              /\ move' = m
    /\ clears' = clears + 1
    /\ branch' = "clear"
    /\ UNCHANGED <<args, deck, next_idx, deals, recycles, pc, target, outcome, evalVars>>

Recycle ==
    /\ pc = "loop"
    /\ Branch = "recycle"
    /\ steps' = steps + 1
    /\ seen' = SeenAdd
    /\ deck' = recycle(cleared_groups)
    /\ cleared_groups' = <<>>
    /\ recycles' = recycles + 1
    /\ branch' = "recycle"
    /\ UNCHANGED <<args, cols, active, next_idx, deals, clears, pc, move, target,
                   outcome, evalVars>>

Deadlock ==
    /\ pc = "loop"
    /\ Branch = "deadlock"
    /\ steps' = steps + 1
    /\ seen' = SeenAdd
    /\ Return("deadlock", total_cards, 0, 0)
    /\ UNCHANGED <<args, deck, cols, active, next_idx, cleared_groups, deals, clears,
                   recycles, move, target, evalVars>>

\* the deal, with its guard for the case that no column is active
Deal ==
    /\ pc = "loop"
    /\ Branch = "deal"
    /\ steps' = steps + 1
    /\ seen' = SeenAdd
    /\ LET t == DealTarget(next_idx, active)
       IN  IF t = None
           THEN /\ Return("deadlock", total_cards, Len(deck), Len(cleared_groups))
                /\ UNCHANGED <<deck, cols, deals, next_idx, target>>
           ELSE /\ cols' = [cols EXCEPT ![t] = Append(@, Last(deck))]
                /\ deck' = PopLast(deck)
                /\ deals' = deals + 1
                /\ next_idx' = NextCursor(next_idx, t)
                /\ target' = t
                /\ branch' = "deal"
                /\ UNCHANGED <<pc, outcome>>
    /\ UNCHANGED <<args, active, cleared_groups, clears, recycles, move, evalVars>>

Next ==
    \/ OpeningDeal
    \/ Timeout
    \/ Cycle
    \/ ZeroClear
    \/ Lucky3
    \/ Clear
    \/ Recycle
    \/ Deadlock
    \/ Deal

Spec == Init /\ [][Next]_vars

\* The games run to their end: the interpreter goes on executing the loop, so
\* a step that can be taken is taken. These games are started with the
\* smallest step caps and with the largest one.
InitFair == Init /\ max_steps \in (1..FairShortCaps) \cup {MaxSteps}

FairSpec == InitFair /\ [][Next]_vars /\ WF_vars(Next)

----------------------------------------------------------------------------
(* legal_clear_moves_for_col called on its own *)

ColInputs == UNION {[1..n -> Cards] : n \in 0..MaxColLen}

InitEval ==
    /\ col \in ColInputs
    /\ out = <<>>
    /\ pc = "call"
    /\ deck_mode = "forced3" /\ policy = "deterministic"
    /\ max_steps = 1 /\ detect_cycle = FALSE
    /\ deck = <<>>
    /\ cols = [i \in ColIds |-> <<>>]
    /\ active = [i \in ColIds |-> TRUE]
    /\ next_idx = 0
    /\ cleared_groups = <<>>
    /\ steps = 0 /\ deals = 0 /\ clears = 0 /\ recycles = 0
    /\ seen = {}
    /\ branch = "none"
    /\ move = <<>>
    /\ target = None
    /\ outcome = NoOutcome
    /\ PoolIdle

Evaluate ==
    /\ pc = "call"
    /\ out' = legal_clear_moves_for_col(col)
    /\ pc' = "return"
    /\ UNCHANGED <<col, gameVars, poolVars>>

NextEval == Evaluate

SpecEval == InitEval /\ [][NextEval]_vars

----------------------------------------------------------------------------
(* build_pool (tools/build_seed_pool.py) *)

Seeds == 0..(NumSeeds - 1)

\* the kinds simulate_game returns when called with detect_cycle=False
PoolKinds == {"lucky3", "zero-clear", "deadlock", "timeout"}

\* int(round(total * lucky3_ratio)): Python rounds halves to the even integer
RoundRatio(n, ratio) ==
    LET num == n * ratio[1]
        den == ratio[2]
        q == num \div den
        r == num % den
    IN  IF 2 * r < den THEN q
        ELSE IF 2 * r > den THEN q + 1
        ELSE IF q % 2 = 0 THEN q ELSE q + 1

\* the search stopping as soon as one of the two targets is met
PoolUnmet_either(l, z) == Len(l) < target_lucky3 /\ Len(z) < target_zero

\* len(lucky3_seeds) < target_lucky3 or len(zero_seeds) < target_zero
PoolUnmet(l, z) == Len(l) < target_lucky3 \/ Len(z) < target_zero

\* state after the initialisation of build_pool's locals
InitPool ==
    /\ total \in 0..MaxTotal
    /\ lucky3_ratio \in {<<n, RatioDen>> : n \in 0..RatioDen}
    /\ seed_limit \in 0..MaxSeedLimit
    /\ seed_kind \in [Seeds -> PoolKinds]
    /\ target_lucky3 = RoundRatio(total, lucky3_ratio)
    /\ target_zero = total - target_lucky3
    /\ lucky3_seeds = <<>> /\ zero_seeds = <<>>
    /\ pool_seen = {}
    /\ attempts = 0
    /\ pool_out = <<>>
    /\ pc = "pool"
    /\ deck_mode = "full-random" /\ policy = "deterministic"
    /\ max_steps = MaxSteps /\ detect_cycle = FALSE
    /\ deck = <<>>
    /\ cols = [i \in ColIds |-> <<>>]
    /\ active = [i \in ColIds |-> TRUE]
    /\ next_idx = 0
    /\ cleared_groups = <<>>
    /\ steps = 0 /\ deals = 0 /\ clears = 0 /\ recycles = 0
    /\ seen = {}
    /\ branch = "none"
    /\ move = <<>>
    /\ target = None
    /\ outcome = NoOutcome
    /\ col = <<>>
    /\ out = <<>>

poolArgs == <<total, lucky3_ratio, seed_limit, seed_kind, target_lucky3, target_zero>>

\* one pass through the while loop: a seed is drawn; a seed drawn before is
\* skipped, a new one is simulated and kept if its kind is still wanted
PoolAttempt ==
    /\ pc = "pool"
    /\ PoolUnmet(lucky3_seeds, zero_seeds) /\ attempts < seed_limit
    /\ attempts' = attempts + 1
    /\ \E seed \in Seeds :
          IF seed \in pool_seen
          THEN UNCHANGED <<pool_seen, lucky3_seeds, zero_seeds>>
          ELSE /\ pool_seen' = pool_seen \cup {seed}
               /\ IF seed_kind[seed] = "lucky3" /\ Len(lucky3_seeds) < target_lucky3
                  THEN /\ lucky3_seeds' = Append(lucky3_seeds, seed)
                       /\ UNCHANGED zero_seeds
                  ELSE IF seed_kind[seed] = "zero-clear" /\ Len(zero_seeds) < target_zero
                  THEN /\ zero_seeds' = Append(zero_seeds, seed)
                       /\ UNCHANGED lucky3_seeds
                  ELSE UNCHANGED <<lucky3_seeds, zero_seeds>>
    /\ UNCHANGED <<pc, pool_out, poolArgs, gameVars, col, out>>

\* the loop left with a target unmet: raise RuntimeError
PoolRaise ==
    /\ pc = "pool"
    /\ ~(PoolUnmet(lucky3_seeds, zero_seeds) /\ attempts < seed_limit)
    /\ PoolUnmet(lucky3_seeds, zero_seeds)
    /\ pc' = "raised"
    /\ pool_out' = [attempts |-> attempts,
                    lucky3 |-> <<Len(lucky3_seeds), target_lucky3>>,
                    zero_clear |-> <<Len(zero_seeds), target_zero>>]
    /\ UNCHANGED <<attempts, pool_seen, lucky3_seeds, zero_seeds, poolArgs,
                   gameVars, col, out>>

\* return lucky3_seeds, zero_seeds
PoolReturn ==
    /\ pc = "pool"
    /\ ~(PoolUnmet(lucky3_seeds, zero_seeds) /\ attempts < seed_limit)
    /\ ~PoolUnmet(lucky3_seeds, zero_seeds)
    /\ pc' = "returned"
    /\ pool_out' = <<lucky3_seeds, zero_seeds>>
    /\ UNCHANGED <<attempts, pool_seen, lucky3_seeds, zero_seeds, poolArgs,
                   gameVars, col, out>>

NextPool ==
    \/ PoolAttempt
    \/ PoolRaise
    \/ PoolReturn

SpecPool == InitPool /\ [][NextPool]_vars

----------------------------------------------------------------------------
(* Vocabulary of the properties *)

\* every card of the board, column 0 first
BoardCards == Flatten([i \in 1..NumCols |-> cols[i - 1]])

\* every card of the game
AllCards == deck \o BoardCards \o Flatten(cleared_groups)

\* a pass through the loop body is taken
LoopStep == pc = "loop" /\ steps' = steps + 1

StepIsClear == LoopStep /\ clears' = clears + 1
StepIsRecycle == LoopStep /\ recycles' = recycles + 1
StepIsDeal == LoopStep /\ Len(deck') = Len(deck) - 1

\* the four terminal conditions of the classifier, on the state a step starts in
CapExceeded == steps + 1 > max_steps
SeenBefore == detect_cycle /\ <<deck, cols, active, next_idx, cleared_groups>> \in seen
BoardEmpty == Len(BoardCards) = 0
LoneThree == BoardCards = <<3>>
TerminalApplies == CapExceeded \/ SeenBefore \/ BoardEmpty \/ LoneThree

\* the three index templates of a column of length L
Head1Tail2(L) == <<0, L - 2, L - 1>>
Head2Tail1(L) == <<0, 1, L - 1>>
Tail3(L) == <<L - 3, L - 2, L - 1>>

SumsToTarget(c, t) == c[t[1] + 1] + c[t[2] + 1] + c[t[3] + 1] \in {9, 19, 29}

ColumnHasClear(c) ==
    /\ Len(c) >= 3
    /\ \/ SumsToTarget(c, Head1Tail2(Len(c)))
       \/ SumsToTarget(c, Head2Tail1(Len(c)))
       \/ SumsToTarget(c, Tail3(Len(c)))

ClearExists == \E i \in ColIds : active[i] /\ ColumnHasClear(cols[i])

\* the column c without the cards at the 0-based indices in idx
Without(c, idx) ==
    LET keep == {k \in 1..Len(c) : (k - 1) \notin idx}
        pos(n) == CHOOSE k \in keep : Cardinality({j \in keep : j < k}) = n - 1
    IN  [n \in 1..Cardinality(keep) |-> c[pos(n)]]

----------------------------------------------------------------------------
(* C1 *)

\* C1: card conservation. In every state of a game, from build_deck on,
\* len(deck) + the four column lengths + 3 * len(cleared_groups) is 40 and
\* deck, columns and cleared groups together hold four copies of each value
\* 1..10.
C1_Conservation ==
    (pc \in {"opening", "loop", "done"}) =>
        /\ Len(deck) + Len(cols[0]) + Len(cols[1]) + Len(cols[2]) + Len(cols[3])
             + 3 * Len(cleared_groups) = 40
        /\ \A g \in 1..Len(cleared_groups) : Len(cleared_groups[g]) = 3
        /\ \A v \in 1..10 : Count(AllCards, v) = 4

\* a game that has cleared, recycled, dealt from the recycled deck and cleared again
C1_Witness ==
    /\ recycles >= 1
    /\ cleared_groups # <<>>
    /\ deck # <<>>
    /\ branch = "clear"

(* C2 *)

\* C2: action priority. In a step in which no terminal condition applies:
\* if some active column has a legal clear the step is a clear; otherwise if
\* the deck is empty and the history is not, it is a recycle; otherwise if the
\* deck is non-empty it is a deal; otherwise the game ends in deadlock. The
\* step takes exactly one of clear, recycle, deal unless it ends the game.
C2_ActionPriority ==
    [][(LoopStep /\ ~TerminalApplies) =>
          /\ ClearExists =>
                (clears' = clears + 1 /\ deals' = deals /\ recycles' = recycles /\ pc' = "loop")
          /\ (~ClearExists /\ deck = <<>> /\ cleared_groups # <<>>) =>
                (recycles' = recycles + 1 /\ deals' = deals /\ clears' = clears /\ pc' = "loop")
          /\ (~ClearExists /\ deck # <<>>) =>
                (deals' = deals + 1 /\ clears' = clears /\ recycles' = recycles /\ pc' = "loop")
          /\ (~ClearExists /\ deck = <<>> /\ cleared_groups = <<>>) =>
                (pc' = "done" /\ outcome'.kind = "deadlock"
                 /\ deals' = deals /\ clears' = clears /\ recycles' = recycles)
          /\ (deals' = deals + 1 \/ recycles' = recycles + 1) => ~ClearExists
    ]_vars

\* a clear taken with an empty deck and a non-empty history: the state in
\* which a recycle would be due if there were no legal clear
C2_Witness ==
    /\ branch = "clear"
    /\ deck = <<>>
    /\ Len(cleared_groups) >= 2
    /\ deals > 0

(* C3 *)

\* C3: win classification. zero-clear is returned only with 0 cards on the
\* board, lucky3 only with exactly one card on the board, of value 3; a step
\* that starts with exactly one card of another value on the board does not
\* return lucky3 or zero-clear: unless the cap or the cycle check ends the
\* game it recycles, deals or deadlocks.
C3_WinClassification ==
    /\ [](outcome.kind = "zero-clear" => BoardCards = <<>>)
    /\ [](outcome.kind = "lucky3" => BoardCards = <<3>>)
    /\ [][(LoopStep /\ Len(BoardCards) = 1 /\ BoardCards # <<3>>) =>
             /\ outcome'.kind \notin {"lucky3", "zero-clear"}
             /\ (~CapExceeded /\ ~SeenBefore) =>
                   \/ recycles' = recycles + 1
                   \/ deals' = deals + 1
                   \/ outcome'.kind = "deadlock"
       ]_vars

\* a card has just been dealt next to a lone card that was not a 3
C3_Witness ==
    /\ branch = "deal"
    /\ Len(BoardCards) = 2
    /\ clears > 0
    /\ pc = "loop"

(* C4 *)

\* C4: classifier priority. A step first tests timeout, then cycle (if
\* enabled), then zero-clear, then lucky3: the first that applies is the
\* outcome, so a step beyond the cap is a timeout whatever the board; and a
\* step in which one of the four applies changes neither deck, columns,
\* flags, cursor, history nor the deal, clear and recycle counters.
C4_ClassifierPriority ==
    [][LoopStep =>
          /\ CapExceeded => outcome'.kind = "timeout"
          /\ (~CapExceeded /\ SeenBefore) => outcome'.kind = "cycle"
          /\ (~CapExceeded /\ ~SeenBefore /\ BoardEmpty) => outcome'.kind = "zero-clear"
          /\ (~CapExceeded /\ ~SeenBefore /\ ~BoardEmpty /\ LoneThree) =>
                outcome'.kind = "lucky3"
          /\ TerminalApplies =>
                /\ pc' = "done"
                /\ UNCHANGED <<deck, cols, active, next_idx, cleared_groups,
                               deals, clears, recycles>>
    ]_vars

\* a timeout returned although the board is empty
C4_Witness ==
    /\ outcome.kind = "timeout"
    /\ BoardCards = <<>>
    /\ outcome.steps = max_steps + 1

(* C5 *)

\* C5: deadlock definition. A deadlock outcome is returned only with the deck
\* empty, the history empty, no legal clear in an active column and a board
\* that is neither empty nor a lone 3; and a step that starts in such a state
\* with neither timeout nor cycle applying returns deadlock.
C5_DeadlockDefinition ==
    /\ [](outcome.kind = "deadlock" =>
             /\ deck = <<>>
             /\ cleared_groups = <<>>
             /\ ~ClearExists
             /\ ~BoardEmpty
             /\ ~LoneThree)
    /\ [][(LoopStep /\ deck = <<>> /\ cleared_groups = <<>> /\ ~ClearExists
             /\ ~BoardEmpty /\ ~LoneThree /\ ~CapExceeded /\ ~SeenBefore) =>
             (pc' = "done" /\ outcome'.kind = "deadlock")
       ]_vars

\* a deadlock returned after the deck was recycled at least once
C5_Witness ==
    /\ outcome.kind = "deadlock"
    /\ pc = "done"
    /\ recycles >= 1

(* C6 *)

\* C6: recycle correctness. After a recycle the history is empty, the deck
\* has three cards per group of the history before, and holds those groups
\* most recent first, each in its own order, so that the next card drawn is
\* the last card of the earliest group; columns, flags and cursor are
\* unchanged.
C6_RecycleCorrectness ==
    [][StepIsRecycle =>
          /\ cleared_groups' = <<>>
          /\ Len(deck') = 3 * Len(cleared_groups)
          /\ \A j \in 1..Len(cleared_groups) : \A k \in 1..3 :
                deck'[3 * (j - 1) + k] = cleared_groups[Len(cleared_groups) + 1 - j][k]
          /\ deck'[Len(deck')] = cleared_groups[1][3]
          /\ UNCHANGED <<cols, active, next_idx>>
    ]_vars

\* the deck right after a recycle of at least two groups
C6_Witness ==
    /\ branch = "recycle"
    /\ Len(deck) >= 6
    /\ cleared_groups = <<>>
    /\ recycles >= 1

(* C7 *)

\* C7: evaluator output. Every triple legal_clear_moves_for_col returns has
\* strictly ascending indices within 0..L-1 and values summing to 9, 19 or
\* 29; no triple is returned twice; nothing is returned for L < 3; at most
\* one triple for L = 3.
C7_EvaluatorOutput ==
    (pc = "return") =>
        /\ \A k \in 1..Len(out) :
              /\ 0 <= out[k][1] /\ out[k][1] < out[k][2] /\ out[k][2] < out[k][3]
              /\ out[k][3] <= Len(col) - 1
              /\ col[out[k][1] + 1] + col[out[k][2] + 1] + col[out[k][3] + 1] \in {9, 19, 29}
        /\ \A j, k \in 1..Len(out) : j # k => out[j] # out[k]
        /\ Len(col) < 3 => out = <<>>
        /\ Len(col) = 3 => Len(out) <= 1

\* a column of three cards whose only triple is legal
C7_Witness ==
    /\ pc = "return"
    /\ Len(col) = 3
    /\ Len(out) = 1

(* C8 *)

C9_DealTargetAndCursor ==
    [][StepIsDeal =>
          \E t \in ColIds :
              /\ active[t]
              /\ \E off \in 0..3 :
                    /\ t = (next_idx + off) % 4
                    /\ \A q \in 0..(off - 1) : ~active[(next_idx + q) % 4]
              /\ cols' = [cols EXCEPT ![t] = Append(cols[t], deck[Len(deck)])]
              /\ deck' = SubSeq(deck, 1, Len(deck) - 1)
              /\ next_idx' = (t + 1) % 4
              /\ deals' = deals + 1
              /\ UNCHANGED <<active, cleared_groups, clears, recycles>>
    ]_vars

\* a card dealt to the only active column left, the scan passing the three
\* inactive ones
C9_Witness ==
    /\ branch = "deal"
    /\ target # None
    /\ \A i \in ColIds : active[i] <=> i = target
    /\ next_idx = (target + 1) % 4
    /\ Len(cols[target]) >= 5

(* C10 *)

\* C10: inactive columns. A column's flag becomes false exactly in a clear
\* that empties the column; a false flag stays false; an inactive column is
\* empty and stays empty (no deal to it, no clear in it).
C10_InactivePermanent ==
    /\ [](\A i \in ColIds : ~active[i] => cols[i] = <<>>)
    /\ [][\A i \in ColIds :
             /\ (active[i] /\ ~active'[i]) <=>
                   (StepIsClear /\ cols[i] # <<>> /\ cols'[i] = <<>>)
             /\ ~active[i] => (~active'[i] /\ cols'[i] = <<>>)
       ]_vars

\* cards go on being dealt and cleared while a column is inactive
C10_Witness ==
    /\ \E i \in ColIds : ~active[i]
    /\ branch = "clear"
    /\ deals > 0
    /\ Len(BoardCards) > 0

(* C12 *)

Kinds == {"lucky3", "zero-clear", "deadlock", "cycle", "timeout"}

\* C12: outcome exclusivity and absorption. An Outcome exists exactly when the
\* game has returned, its kind is one of the five, it is produced once, and
\* after it nothing of the game state changes: no step starts in a state in
\* which the game has returned.
C12_OutcomeAbsorbing ==
    /\ [](pc = "done" <=> outcome.kind \in Kinds)
    /\ [](pc # "done" => outcome = NoOutcome)
    /\ [][/\ pc # "done"
          /\ pc' = "done" => (outcome = NoOutcome /\ outcome'.kind \in Kinds)
          /\ outcome' # outcome => pc' = "done"
       ]_vars

\* a game that has returned while cards were left in the deck and a clear was
\* still possible on the board
C12_Witness ==
    /\ pc = "done"
    /\ outcome.kind = "timeout"
    /\ deck # <<>>
    /\ ClearExists

(* C13 *)

\* C13: termination under the step cap. Every game returns; it takes at most
\* max_steps clear, recycle and deal actions, every Outcome has
\* steps <= max_steps + 1, and its kind is timeout exactly when its step
\* count is max_steps + 1.
C13_Termination ==
    /\ <>(pc = "done")
    /\ [](deals + clears + recycles <= max_steps /\ steps <= max_steps + 1)
    /\ [](pc = "done" =>
             /\ outcome.steps <= max_steps + 1
             /\ outcome.kind = "timeout" <=> outcome.steps = max_steps + 1)

\* a timeout after max_steps actions, at the largest cap
C13_Witness ==
    /\ pc = "done"
    /\ outcome.kind = "timeout"
    /\ outcome.deals + outcome.clears + outcome.recycles = max_steps
    /\ max_steps >= MaxSteps

----------------------------------------------------------------------------
(* C14 *)

\* C14: build_deck returns, in either mode, a 40-card deck with four copies of
\* each value 1..10; in forced3 mode a 3 lies at index 0, the end opposite the
\* draw end. So in a forced3 game, as long as nothing has been recycled, the
\* card at index 0 of a non-empty deck is that 3, and the deal that empties
\* the initial deck deals a 3.
C14_Forced3Deck ==
    /\ [](pc = "opening" => /\ Len(deck) = 40
                            /\ \A v \in 1..10 : Count(deck, v) = 4)
    /\ [](deck_mode = "forced3" /\ recycles = 0 /\ deck # <<>> => deck[1] = 3)
    /\ [][deck_mode = "forced3" /\ recycles = 0 /\ StepIsDeal /\ deck' = <<>>
          => \E i \in ColIds : /\ cols'[i] = Append(cols[i], 3)
                               /\ \A j \in ColIds \ {i} : cols'[j] = cols[j]
       ]_vars

\* a forced3 game whose initial deck has just been dealt out
C14_Witness ==
    /\ deck_mode = "forced3" /\ recycles = 0 /\ deck = <<>>
    /\ branch = "deal" /\ deals = 40 - 12
    /\ Last(cols[target]) = 3

\* full-random decks carry no such constraint: one starts with another card
C14_FullRandomWitness ==
    pc = "opening" /\ deck_mode = "full-random" /\ deck[1] # 3 /\ Last(deck) # 3

----------------------------------------------------------------------------
(* C15 *)

\* C15: the visited-state set is empty when a game starts. With detect_cycle
\* enabled, every step that goes on playing adds the state it started in
\* (deck, columns, active flags, deal cursor, cleared groups) to the set, so
\* the set holds the start states of the earlier steps of this game, all
\* different; a step returns cycle exactly when its counter is within the cap
\* and its start state is in the set. With detect_cycle disabled the set stays
\* empty and the kind is never cycle.
C15_CycleDetection ==
    /\ [](pc = "opening" => seen = {})
    /\ [](~detect_cycle => seen = {} /\ outcome.kind # "cycle")
    /\ [](outcome.kind = "cycle" => detect_cycle /\ outcome.steps <= max_steps)
    /\ [](detect_cycle /\ pc = "loop" => Cardinality(seen) = steps)
    /\ [][LoopStep /\ detect_cycle
          => /\ outcome'.kind = "cycle" <=> (~CapExceeded /\ SeenBefore)
             /\ pc' = "loop"
                => seen' = seen \cup {<<deck, cols, active, next_idx, cleared_groups>>}
             /\ seen \subseteq seen'
       ]_vars

\* a game that came back to a state it had been in
C15_Witness ==
    /\ pc = "done" /\ outcome.kind = "cycle"
    /\ <<deck, cols, active, next_idx, cleared_groups>> \in seen
    /\ outcome.recycles > 0

----------------------------------------------------------------------------
(* C16 *)

\* the seeds of the returned pool, lucky3 seeds first
PoolSeeds == lucky3_seeds \o zero_seeds

\* C16: build_pool returns only with exactly target_lucky3 seeds whose game
\* ended lucky3 and exactly target_zero seeds whose game ended zero-clear,
\* `total` seeds in all and no seed twice. Every pass through the loop,
\* a duplicate draw included, counts as an attempt and there are never more
\* than seed_limit of them. When the loop is left with a target unmet the
\* function raises an error reporting the attempts and the two counts, and
\* does not return.
C16_NoIncompletePool ==
    /\ [](pc = "returned"
          => /\ pool_out = <<lucky3_seeds, zero_seeds>>
             /\ Len(lucky3_seeds) = target_lucky3
             /\ Len(zero_seeds) = target_zero
             /\ Len(PoolSeeds) = total
             /\ \A i, j \in 1..Len(PoolSeeds) : PoolSeeds[i] = PoolSeeds[j] => i = j
             /\ \A i \in 1..Len(lucky3_seeds) : seed_kind[lucky3_seeds[i]] = "lucky3"
             /\ \A i \in 1..Len(zero_seeds) : seed_kind[zero_seeds[i]] = "zero-clear")
    /\ [](pc \in {"pool", "returned", "raised"}
          => target_lucky3 >= 0 /\ target_zero >= 0 /\ attempts <= seed_limit)
    /\ [](pc = "raised"
          => /\ Len(lucky3_seeds) < target_lucky3 \/ Len(zero_seeds) < target_zero
             /\ attempts = seed_limit
             /\ pool_out = [attempts |-> attempts,
                            lucky3 |-> <<Len(lucky3_seeds), target_lucky3>>,
                            zero_clear |-> <<Len(zero_seeds), target_zero>>])
    /\ [][pc = "pool"
          => /\ pc' = "pool" => attempts' = attempts + 1
             /\ pc' = "returned"
                => Len(lucky3_seeds) = target_lucky3 /\ Len(zero_seeds) = target_zero
             /\ (attempts >= seed_limit
                 /\ (Len(lucky3_seeds) < target_lucky3 \/ Len(zero_seeds) < target_zero))
                => pc' = "raised"
       ]_vars

\* a full pool of both kinds returned on the last attempt allowed, one draw
\* having been a duplicate
C16_Witness ==
    /\ pc = "returned"
    /\ target_lucky3 > 0 /\ target_zero > 0
    /\ attempts = seed_limit
    /\ Cardinality(pool_seen) < attempts

\* the search given up with one kind complete and the other not
C16_RaiseWitness ==
    /\ pc = "raised"
    /\ target_lucky3 > 0 /\ Len(lucky3_seeds) = target_lucky3
    /\ Len(zero_seeds) < target_zero
    /\ attempts > 0

----------------------------------------------------------------------------
(* C17 *)

\* C17: a clear of the index triple i0 < i1 < i2 in column c appends the one
\* group <<col[i0], col[i1], col[i2]>>, read before the removal, to the end
\* of the cleared groups; removes exactly those three positions from column
\* c, the other cards keeping their order; adds 1 to the clear counter; makes
\* column c inactive exactly when it is now empty; and leaves the deck, the
\* deal cursor, the other columns and their active flags as they were.
C17_ClearEffect ==
    [][StepIsClear
       => \E c \in ColIds : \E i0, i1, i2 \in 0..(Len(cols[c]) - 1) :
             /\ move' = <<c, <<i0, i1, i2>>>>
             /\ i0 < i1 /\ i1 < i2
             /\ active[c]
             /\ cleared_groups' = Append(cleared_groups,
                                         <<cols[c][i0 + 1], cols[c][i1 + 1], cols[c][i2 + 1]>>)
             /\ cols'[c] = Without(cols[c], {i0, i1, i2})
             /\ Len(cols'[c]) = Len(cols[c]) - 3
             /\ clears' = clears + 1
             /\ active'[c] = (cols'[c] # <<>>)
             /\ \A j \in ColIds \ {c} : cols'[j] = cols[j] /\ active'[j] = active[j]
             /\ deck' = deck /\ next_idx' = next_idx
             /\ deals' = deals /\ recycles' = recycles
      ]_vars

\* a clear of the first two cards and the last one of a column of six or
\* more, the cards between them staying
C17_Witness ==
    /\ pc = "loop" /\ branch = "clear"
    /\ move[2][1] = 0 /\ move[2][2] = 1 /\ move[2][3] >= 5
    /\ Len(cols[move[1]]) = move[2][3] - 2
    /\ cols[move[1]][1] # cols[move[1]][2]
    /\ Len(cleared_groups) >= 2

----------------------------------------------------------------------------
(* C18 *)

\* the step takes the deal branch: no terminal condition, no legal clear, and
\* cards in the deck
DealBranch == pc = "loop" /\ ~TerminalApplies /\ ~ClearExists /\ deck # <<>>

\* C18: after the opening deal a column is active exactly when it holds
\* cards. So a step that reaches the deal branch finds an active column and
\* deals to it, and a deadlock Outcome is only ever returned with the deck
\* and the cleared groups both empty.
C18_DefensiveDeadlockUnreachable ==
    /\ [](pc \in {"loop", "done"} => \A i \in ColIds : active[i] <=> cols[i] # <<>>)
    /\ [](DealBranch => \E i \in ColIds : active[i])
    /\ [][DealBranch => /\ StepIsDeal
                        /\ pc' = "loop"
                        /\ target' \in ColIds /\ active[target']
                        /\ cols'[target'] = Append(cols[target'], Last(deck))
       ]_vars
    /\ [](outcome.kind = "deadlock"
          => /\ deck = <<>> /\ cleared_groups = <<>>
             /\ outcome.remaining_deck = 0 /\ outcome.remaining_recycle_groups = 0)

\* a deal made past an emptied column, which stays empty and inactive
C18_Witness ==
    /\ pc = "loop" /\ branch = "deal"
    /\ \E i \in ColIds : ~active[i] /\ cols[i] = <<>> /\ target = (i + 1) % 4

----------------------------------------------------------------------------
(* C19 *)

\* C19: every deadlock Outcome reports remaining_board = 40, remaining_deck = 0
\* and remaining_recycle_groups = 0: the whole pack lies in the columns and
\* none of them has a legal clear. No deadlock with fewer than 40 cards on
\* the board is reachable.
C19_DeadlockWholePack ==
    outcome.kind = "deadlock"
    => /\ outcome.remaining_board = 40
       /\ Len(BoardCards) = 40
       /\ \A v \in 1..10 : Count(BoardCards, v) = 4
       /\ \A i \in ColIds : ~ColumnHasClear(cols[i])
       /\ outcome.remaining_deck = 0
       /\ outcome.remaining_recycle_groups = 0

\* a deadlock after cards had been cleared and recycled
C19_Witness ==
    /\ pc = "done" /\ outcome.kind = "deadlock"
    /\ outcome.clears > 0 /\ outcome.recycles > 0
    /\ outcome.deals = 28 + 3 * outcome.clears

----------------------------------------------------------------------------
(* C20 *)

\* C20: every pass through the loop either returns or performs exactly one of
\* clear, recycle and deal, so while the game runs steps = deals + clears +
\* recycles and every Outcome has steps = deals + clears + recycles + 1. From
\* the opening deal on the board holds 12 + deals - 3 * clears cards, and the
\* Outcome's remaining_board is the number of cards on the board at the end.
C20_CounterConsistency ==
    /\ [](pc = "loop" => steps = deals + clears + recycles)
    /\ [](pc = "done"
          => /\ outcome.steps = outcome.deals + outcome.clears + outcome.recycles + 1
             /\ outcome.steps = steps
             /\ outcome.deals = deals /\ outcome.clears = clears
             /\ outcome.recycles = recycles
             /\ outcome.remaining_board = Len(BoardCards))
    /\ [](pc \in {"loop", "done"} => Len(BoardCards) = 12 + deals - 3 * clears)
    /\ [][LoopStep
          => \/ /\ pc' = "done"
                /\ deals' = deals /\ clears' = clears /\ recycles' = recycles
             \/ /\ pc' = "loop"
                /\ deals' + clears' + recycles' = deals + clears + recycles + 1
                /\ deals' >= deals /\ clears' >= clears /\ recycles' >= recycles
       ]_vars

\* a game won after deals, clears and recycles
C20_Witness ==
    /\ pc = "done" /\ outcome.kind = "lucky3"
    /\ outcome.recycles > 0 /\ outcome.clears > 0
    /\ outcome.remaining_board = 1
    /\ 12 + outcome.deals - 3 * outcome.clears = 1

====
